---- MODULE Spec2Model ----
(***************************************************************************)
(* Model of hphp/runtime/vm/jit/irgen-state.cpp: construction of the       *)
(* per-translation state IRGS and the snapshot renderer show(const IRGS&). *)
(*                                                                         *)
(* The output stream `out` is kept as a sequence of lines.  A line keeps   *)
(* its kind, the number printed in front of it, its text (which of the     *)
(* descriptions it carries), whether each of the two prediction suffixes   *)
(* was appended and, for an ActRec line, the bytecode offset whose         *)
(* pretty-printed text is its label.                                       *)
(*                                                                         *)
(* assertx(e) halts show() when e is false.                                *)
(***************************************************************************)
EXTENDS Integers, Sequences, FiniteSets, TLC

VARIABLES
  context,       \* TransContext of the unit: srcKey, initSpOffset
  func,          \* metadata of curFunc(): numLocals, numSlotsInFrame,
                 \* maxStackCells, fpitab, findFPI
  fs,            \* what the builder knows when show() runs: per stack offset
                 \* and per local the type, whether a value is known, and the
                 \* predicted types
  pc,            \* "new", "ready", "stack", "locals", "done", "aborted"
  bcStateStack,  \* IRGS::bcStateStack
  irb,           \* IRBuilder: marker, syncedSpLevel, instructions generated
  trace,         \* calls made by the constructor on the builder, in order
  stackDepth,    \* show(): stackDepth
  spOffset,      \* show(): spOffset
  i,             \* show(): loop variable of the stack loop, then of the locals loop
  fpi,           \* show(): index in fpitab of the region considered, -1 = nullptr
  out,           \* show(): the lines written to the stream so far
  chk            \* the last call of checkFpi: where it was made and its result

vars == <<context, func, fs, pc, bcStateStack, irb, trace, stackDepth,
          spOffset, i, fpi, out, chk>>

----------------------------------------------------------------------------
(* Bounds of the model *)

MaxSp == 6          \* initSpOffset ranges over 0..MaxSp
MaxLocals == 1      \* numLocals and numSlotsInFrame range over 0..MaxLocals
MaxFpi == 2         \* regions active at the current bytecode offset
MaxTrackedSp == 2   \* stack offsets with arbitrary type knowledge

(* Number of cells of an ActRec *)
kNumActRecCells == 3

BcOffs == {0}       \* bytecode offsets of the source key
NoFpi == -1         \* nullptr, and m_parentIndex == -1

----------------------------------------------------------------------------
(* Types.  A Type is a set of primitive kinds, <= is inclusion. *)

TBottom == {}
TCell == {"Cell"}
TBoxedCell == {"BoxedCell"}
TGen == {"Cell", "BoxedCell"}
TStkElem == {"Cell", "BoxedCell", "Cls"}

TypeLe(a, b) == a \subseteq b
TypeLt(a, b) == a \subseteq b /\ a # b

StackTypes == {TCell, TStkElem}
LocalTypes == {TCell, TBoxedCell, TGen}
InnerTypes == {TBottom, TCell}

StackInfos ==
  [ty : StackTypes, hasVal : BOOLEAN,
   predicted : {TBottom, TCell, TBoxedCell, TStkElem}]
LocalInfos ==
  [ty : LocalTypes, hasVal : BOOLEAN, predicted : LocalTypes \cup {TBottom},
   inner : InnerTypes]

\* a builder that has learnt nothing about a cell or a local
FreshStack == [ty |-> TStkElem, hasVal |-> FALSE, predicted |-> TStkElem]
FreshLocal == [ty |-> TGen, hasVal |-> FALSE, predicted |-> TGen, inner |-> TBottom]

----------------------------------------------------------------------------
(* Function metadata and translation context *)

\* The regions show() can reach are the region findFPI returns for the
\* current bytecode offset and its ancestors.  fpitab holds that chain:
\* entry 0 is the outermost region, the parent of entry k is entry k-1, and
\* findFPI returns the last entry, or nullptr for an empty chain.  m_fpOff
\* is any offset, also one that no ActRec on the stack can have.
FpiChain(offs) ==
  [k \in DOMAIN offs |-> [m_fpOff |-> offs[k], m_parentIndex |-> k - 1]]

FpiTabs ==
  UNION { { FpiChain(offs) : offs \in [0..(n - 1) -> 0..MaxSp] } : n \in 0..MaxFpi }

\* the index of the innermost region of the chain, -1 when there is none
Innermost(tab) == Cardinality(DOMAIN tab) - 1

\* m_fpushOff of entry k, distinct for distinct entries
fpushOff(k) == k

Funcs ==
  { [numLocals |-> nl, numSlotsInFrame |-> ns, maxStackCells |-> mx,
     fpitab |-> tab, findFPI |-> [o \in BcOffs |-> Innermost(tab)]] :
      nl \in 0..MaxLocals, ns \in 0..MaxLocals, mx \in {MaxSp - 1, MaxSp},
      tab \in FpiTabs }

WellFormed(f) == f.numLocals <= f.numSlotsInFrame

Contexts ==
  [srcKey : [offset : BcOffs, resumed : BOOLEAN], initSpOffset : 0..MaxSp]

\* functions without call-setup regions, for the states with type knowledge
PlainFuncs == { f \in Funcs : WellFormed(f) /\ DOMAIN f.fpitab = {} }

FreshState(f) ==
  [stack |-> [o \in 0..(MaxSp - 1) |-> FreshStack],
   locals |-> [l \in 0..(f.numLocals - 1) |-> FreshLocal]]

StackTracked(f) ==
  { [stack |-> [o \in 0..(MaxSp - 1) |->
                  IF o < MaxTrackedSp THEN t[o] ELSE FreshStack],
     locals |-> [l \in 0..(f.numLocals - 1) |-> FreshLocal]] :
      t \in [0..(MaxTrackedSp - 1) -> StackInfos] }

LocalsTracked(f) ==
  { [stack |-> [o \in 0..(MaxSp - 1) |-> FreshStack], locals |-> t] :
      t \in [0..(f.numLocals - 1) -> LocalInfos] }

----------------------------------------------------------------------------
(* Lines of the output *)

Line(k, idx, from, str, predict, inner) ==
  [k |-> k, idx |-> idx, from |-> from, str |-> str,
   predict |-> predict, inner |-> inner]

\* header(" N stack element(s): "), header(" N local(s) "), header("")
header(k, n) == Line(k, n, -1, "", FALSE, FALSE)

NoChk == [valid |-> FALSE, off |-> 0, sp |-> 0, fpi |-> NoFpi, hit |-> FALSE]

----------------------------------------------------------------------------
(* IRGS::IRGS *)

initial_marker(ctx) ==
  [sk |-> ctx.srcKey, spOff |-> ctx.initSpOffset, fp |-> "nullptr"]

InitialCursorStack(ctx) == <<ctx.srcKey>>

\* updateMarker, gen(DefFP), gen(DefSP, FPInvOffsetData, frame)
CtorCalls == <<"updateMarker", "DefFP", "DefSP">>

\* DefSP generated without the frame pointer as its input
BootstrapInsts_noFrame(ctx) ==
  << [op |-> "DefFP", extra |-> -1, srcs |-> <<>>, dst |-> 0],
     [op |-> "DefSP", extra |-> ctx.initSpOffset, srcs |-> <<>>, dst |-> 1] >>

BootstrapInsts(ctx) ==
  << [op |-> "DefFP", extra |-> -1, srcs |-> <<>>, dst |-> 0],
     [op |-> "DefSP", extra |-> ctx.initSpOffset, srcs |-> <<0>>, dst |-> 1] >>

IRGS_ctor ==
  /\ pc = "new"
  /\ bcStateStack' = InitialCursorStack(context)
  /\ irb' = [marker |-> initial_marker(context),
             syncedSpLevel |-> initial_marker(context).spOff,
             insts |-> irb.insts \o BootstrapInsts(context)]
  /\ trace' = trace \o CtorCalls
  /\ pc' = "ready"
  /\ UNCHANGED <<context, func, fs, stackDepth, spOffset, i, fpi, out, chk>>

----------------------------------------------------------------------------
(* show(const IRGS&) *)

curSrcKey == bcStateStack[Len(bcStateStack)]
resumed == curSrcKey.resumed
bcOff == curSrcKey.offset

frameCells == IF resumed THEN 0 ELSE func.numSlotsInFrame

\* no check of the sign of stackDepth
StackDepthOk_always(sd) == TRUE

StackDepthOk(sd) == sd >= 0

ShowBegin ==
  /\ pc = "ready"
  /\ LET sd == irb.syncedSpLevel - frameCells IN
       /\ stackDepth' = sd
       /\ IF StackDepthOk(sd)
            THEN /\ pc' = "stack"
                 /\ spOffset' = sd
                 /\ fpi' = func.findFPI[bcOff]
                 /\ out' = <<header("stack header", sd)>>
                 /\ i' = 0
            ELSE /\ pc' = "aborted"
                 /\ UNCHANGED <<spOffset, fpi, out, i>>
  /\ chk' = NoChk
  /\ UNCHANGED <<context, func, fs, bcStateStack, irb, trace>>

\* the number printed in front of a stack line
\* numbering that starts at 1
ElemIndex_fromOne(sd, sp) == sd - sp + 1

\* numbering by the cells below the line
ElemIndex_below(sd, sp) == sp - 1

ElemIndex(sd, sp) == sd - sp

\* elem without its assertion
ElemAssert_none(sp) == TRUE

ElemAssert(sp) == sp > 0

\* n calls of elem(str): the lines written, the value of spOffset reached,
\* and whether every assertion held.  A call writes its line before its
\* assertion is evaluated.
RECURSIVE ElemRun(_, _, _, _, _)
ElemRun(n, sd, sp, o, ln) ==
  IF n = 0 THEN [ok |-> TRUE, sp |-> sp, out |-> o]
  ELSE LET o1 == Append(o, [ln EXCEPT !.idx = ElemIndex(sd, sp)]) IN
         IF ElemAssert(sp)
           THEN ElemRun(n - 1, sd, sp - 1, o1, ln)
           ELSE [ok |-> FALSE, sp |-> sp, out |-> o1]

\* the condition of checkFpi
\* checkFpi comparing the offset from the top of the stack
FpiMatches_top(f, sp) ==
  f # NoFpi /\ (stackDepth - sp) + frameCells = func.fpitab[f].m_fpOff

FpiMatches(f, sp) ==
  f # NoFpi /\ sp + frameCells = func.fpitab[f].m_fpOff

\* checkFpi that keeps the region it has just rendered
ParentOf_same(f) == f

ParentOf(f) == func.fpitab[f].m_parentIndex

\* number of elem calls of checkFpi, and the increment of i after it
\* one elem call fewer than the cells of an ActRec
ActRecElems_short == kNumActRecCells - 1

ActRecElems == kNumActRecCells
ActRecAdvance == kNumActRecCells

\* stackType, stackValue and predictedTypeFromStack at BCSPOffset{o}
StackInfo(o) == IF o \in DOMAIN fs.stack THEN fs.stack[o] ELSE FreshStack

StackElemStr(stkTy, hasVal) ==
  IF stkTy = TStkElem THEN "unknown"
  ELSE IF hasVal THEN "value" ELSE "type"

\* <= in place of <
StackPredictShown_le(predicted, stkTy) == TypeLe(predicted, stkTy)

StackPredictShown(predicted, stkTy) == TypeLt(predicted, stkTy)

StackStep ==
  /\ pc = "stack"
  /\ spOffset > 0
  /\ IF ~(i < func.maxStackCells)
       THEN /\ pc' = "aborted"
            /\ UNCHANGED <<spOffset, i, fpi, out, chk>>
     ELSE IF FpiMatches(fpi, spOffset)
       THEN LET r == ElemRun(ActRecElems, stackDepth, spOffset, out,
                       Line("actrec", 0, fpushOff(fpi), "ActRec from", FALSE, FALSE))
            IN
              /\ chk' = [valid |-> TRUE, off |-> i, sp |-> spOffset,
                         fpi |-> fpi, hit |-> TRUE]
              /\ out' = r.out
              /\ spOffset' = r.sp
              /\ IF r.ok
                   THEN /\ fpi' = ParentOf(fpi)
                        /\ i' = i + ActRecAdvance
                        /\ pc' = "stack"
                   ELSE /\ pc' = "aborted"
                        /\ UNCHANGED <<fpi, i>>
     ELSE LET c == StackInfo(i)
              r == ElemRun(1, stackDepth, spOffset, out,
                     Line("elem", 0, -1, StackElemStr(c.ty, c.hasVal),
                          StackPredictShown(c.predicted, c.ty), FALSE))
          IN
            /\ chk' = [valid |-> TRUE, off |-> i, sp |-> spOffset,
                       fpi |-> fpi, hit |-> FALSE]
            /\ out' = r.out
            /\ spOffset' = r.sp
            /\ pc' = IF r.ok THEN "stack" ELSE "aborted"
            /\ i' = IF r.ok THEN i + 1 ELSE i
            /\ fpi' = fpi
  /\ UNCHANGED <<context, func, fs, bcStateStack, irb, trace, stackDepth>>

\* leaving the stack loop: header(""), "\n", header(" N local(s) ")
StackEnd ==
  /\ pc = "stack"
  /\ ~(spOffset > 0)
  /\ out' = out \o << header("border", 0), header("blank", 0),
                      header("locals header", func.numLocals) >>
  /\ i' = 0
  /\ pc' = "locals"
  /\ UNCHANGED <<context, func, fs, bcStateStack, irb, trace, stackDepth,
                 spOffset, fpi, chk>>

LocalPredictShown(predicted, localTy) == TypeLt(predicted, localTy)

\* the inner prediction shown whatever the type of the local
InnerShown_anyLocal(localTy, pred) == pred # TBottom

InnerShown(localTy, pred) == TypeLe(localTy, TBoxedCell) /\ pred # TBottom

LocalStep ==
  /\ pc = "locals"
  /\ i < func.numLocals
  /\ LET c == fs.locals[i] IN
       out' = Append(out,
                Line("local", i, -1, IF c.hasVal THEN "value" ELSE "type",
                     LocalPredictShown(c.predicted, c.ty),
                     InnerShown(c.ty, c.inner)))
  /\ i' = i + 1
  /\ UNCHANGED <<context, func, fs, pc, bcStateStack, irb, trace, stackDepth,
                 spOffset, fpi, chk>>

\* leaving the locals loop: header(""), return out.str()
ShowEnd ==
  /\ pc = "locals"
  /\ ~(i < func.numLocals)
  /\ out' = Append(out, header("border", 0))
  /\ pc' = "done"
  /\ UNCHANGED <<context, func, fs, bcStateStack, irb, trace, stackDepth,
                 spOffset, i, fpi, chk>>

----------------------------------------------------------------------------

\* Any function and context with a builder that knows no types; or a
\* function without call-setup regions and without locals, with arbitrary
\* knowledge about the topmost stack cells; or a function without
\* call-setup regions, with arbitrary knowledge about its locals.
Init ==
  /\ \/ /\ context \in Contexts
        /\ func \in {f \in Funcs : WellFormed(f)}
        /\ fs = FreshState(func)
     \/ /\ context \in {c \in Contexts : c.initSpOffset <= MaxTrackedSp}
        /\ func \in {f \in PlainFuncs : f.numSlotsInFrame = 0}
        /\ fs \in StackTracked(func)
     \/ /\ context \in {c \in Contexts : c.initSpOffset <= MaxLocals}
        /\ func \in PlainFuncs
        /\ fs \in LocalsTracked(func)
  /\ pc = "new"
  /\ bcStateStack = <<>>
  /\ irb = [marker |-> [sk |-> context.srcKey, spOff |-> 0, fp |-> "nullptr"],
            syncedSpLevel |-> 0, insts |-> <<>>]
  /\ trace = <<>>
  /\ stackDepth = 0
  /\ spOffset = 0
  /\ i = 0
  /\ fpi = NoFpi
  /\ out = <<>>
  /\ chk = NoChk

Next ==
  \/ IRGS_ctor
  \/ ShowBegin
  \/ StackStep
  \/ StackEnd
  \/ LocalStep
  \/ ShowEnd

Spec == Init /\ [][Next]_vars

LiveSpec == Init /\ [][Next]_vars /\ WF_vars(Next)

----------------------------------------------------------------------------
(* Properties *)

W == kNumActRecCells

IsStackLine(l) == l.k \in {"elem", "actrec"}
StackLines == SelectSeq(out, IsStackLine)
LocalLines == SelectSeq(out, LAMBDA l : l.k = "local")

Constructed == pc # "new"
Walking == pc \in {"stack", "locals", "done", "aborted"} /\ Len(out) > 0

\* every region of the table is an ActRec that lies on the stack
RegionsOnStack ==
  \A k \in DOMAIN func.fpitab :
    /\ W <= func.fpitab[k].m_fpOff - frameCells
    /\ func.fpitab[k].m_fpOff - frameCells <= stackDepth

\* C1 (as stated): checkFpi reports a region at the cell examined iff a region
\* is considered and (offset from the top of the stack) + frameCells equals
\* the m_fpOff of that region.  Stated for the tables whose regions all lie
\* on the stack.
C1_TopOffsetEquation ==
  (chk.valid /\ RegionsOnStack) =>
    (chk.hit <=> (chk.fpi # NoFpi
                  /\ chk.off + frameCells = func.fpitab[chk.fpi].m_fpOff))

\* C1 (amended): checkFpi reports a region at the cell examined iff a region
\* is considered and (stackDepth - offset from the top) + frameCells, the
\* number of cells from the examined cell down to the frame, equals the
\* m_fpOff of that region.
C1_RemainingCellsEquation ==
  chk.valid =>
    (chk.hit <=> (chk.fpi # NoFpi
                  /\ (stackDepth - chk.off) + frameCells
                       = func.fpitab[chk.fpi].m_fpOff))

\* a region recognised below the top of the stack, where the two equations differ
C1_Witness ==
  /\ chk.valid /\ chk.hit /\ pc = "stack"
  /\ chk.off > 0
  /\ chk.off + frameCells # func.fpitab[chk.fpi].m_fpOff

\* a step of the stack loop in which checkFpi returned true and show() went on
RegionStep == pc = "stack" /\ pc' = "stack" /\ out' # out /\ chk'.hit

\* C2: a recognised region of W cells is rendered as exactly W consecutive
\* lines with the same label, the walk advances by W and the region
\* considered becomes its parent; without a region considered no line is
\* rendered as a region any more; the lines of an enclosing region are
\* written only after the lines of a region nested in it.
C2_RegionRendering ==
  /\ [][ /\ RegionStep =>
              /\ chk'.fpi = fpi
              /\ Len(out') = Len(out) + W
              /\ SubSeq(out', 1, Len(out)) = out
              /\ \A n \in 1..W :
                   /\ out'[Len(out) + n].k = "actrec"
                   /\ out'[Len(out) + n].from = fpushOff(fpi)
                   /\ out'[Len(out) + n].str = out'[Len(out) + 1].str
              /\ i' = i + W
              /\ fpi' = func.fpitab[fpi].m_parentIndex
         /\ (pc = "stack" /\ fpi' # fpi) => RegionStep
         /\ (pc = "stack" /\ fpi = NoFpi) =>
              /\ fpi' = NoFpi
              /\ \A n \in (Len(out) + 1)..Len(out') : out'[n].k # "actrec"
       ]_vars
  /\ [](Walking /\ pc # "aborted" =>
          \A p \in 1..Len(out) :
            (out[p].k = "actrec"
             /\ out[p].from # fpushOff(func.findFPI[bcOff])) =>
               \E q \in 1..(p - 1), c \in DOMAIN func.fpitab :
                 /\ out[q].k = "actrec"
                 /\ out[q].from = fpushOff(c)
                 /\ fpushOff(func.fpitab[c].m_parentIndex) = out[p].from)

\* two nested regions rendered, the inner one first
C2_Witness ==
  /\ pc = "done"
  /\ Len(StackLines) = 2 * W
  /\ StackLines[1].k = "actrec" /\ StackLines[W + 1].k = "actrec"
  /\ StackLines[1].from = fpushOff(1) /\ StackLines[W + 1].from = fpushOff(0)

C4_NumbersDecrease ==
  \A p, q \in 1..Len(StackLines) :
    p < q => StackLines[p].idx > StackLines[q].idx

\* C4 (amended): every stack line is numbered stackDepth - spOffset at the
\* time it is written, which is the number of stack lines written before
\* it: the numbers increase from 0 in output order.
C4_NumbersIncrease ==
  \A p \in 1..Len(StackLines) : StackLines[p].idx = p - 1

C4_Witness ==
  /\ pc = "done" /\ stackDepth = 3 /\ Len(StackLines) = 3
  /\ \A p \in 1..3 : StackLines[p].k = "elem" /\ StackLines[p].idx = p - 1

\* the lines of a completed show(): header, stackDepth stack lines, border,
\* empty line, header, numLocals local lines, border
CompleteOutput ==
  /\ Len(out) = stackDepth + func.numLocals + 5
  /\ out[1].k = "stack header" /\ out[1].idx = stackDepth
  /\ \A n \in 2..(stackDepth + 1) : IsStackLine(out[n])
  /\ out[stackDepth + 2].k = "border"
  /\ out[stackDepth + 3].k = "blank"
  /\ out[stackDepth + 4].k = "locals header"
  /\ out[stackDepth + 4].idx = func.numLocals
  /\ \A n \in 1..func.numLocals :
       out[stackDepth + 4 + n].k = "local" /\ out[stackDepth + 4 + n].idx = n - 1
  /\ out[Len(out)].k = "border"

\* C5: with syncedSpLevel - frameCells negative show() halts before
\* writing anything; a show() that returns has written both sections in
\* full, with as many stack lines as its header states.
C5_CompleteOrAborted ==
  /\ (pc \notin {"new", "ready"} /\ irb.syncedSpLevel - frameCells < 0) =>
       (pc = "aborted" /\ out = <<>>)
  /\ pc = "done" => (CompleteOutput /\ Len(StackLines) = out[1].idx)

C5_Witness ==
  pc = "aborted" /\ irb.syncedSpLevel - frameCells < 0 /\ out = <<>>

\* C6: a cell line or a local line carries the "(predict: ...)" suffix iff
\* the predicted type is included in the known type and differs from it;
\* for a prediction included in the known type, iff the two differ.
C6_PredictSuffix ==
  /\ \A p \in 1..Len(StackLines) :
       StackLines[p].k = "elem" =>
         LET c == fs.stack[p - 1] IN
           /\ StackLines[p].predict
                <=> (c.predicted \subseteq c.ty /\ c.predicted # c.ty)
           /\ c.predicted \subseteq c.ty =>
                (StackLines[p].predict <=> c.predicted # c.ty)
  /\ \A p \in 1..Len(LocalLines) :
       LET c == fs.locals[LocalLines[p].idx] IN
         /\ LocalLines[p].predict
              <=> (c.predicted \subseteq c.ty /\ c.predicted # c.ty)
         /\ c.predicted \subseteq c.ty =>
              (LocalLines[p].predict <=> c.predicted # c.ty)

\* a cell with a narrower prediction above a cell whose prediction equals its type
C6_Witness ==
  /\ pc = "done" /\ Len(StackLines) >= 2
  /\ StackLines[1].k = "elem" /\ StackLines[1].predict
  /\ StackLines[2].k = "elem" /\ ~StackLines[2].predict
  /\ fs.stack[1].predicted = fs.stack[1].ty /\ fs.stack[1].ty # TStkElem

\* C7: the line of a local whose type is included in BoxedCell carries the
\* "(predict inner: ...)" suffix iff the predicted inner type is not Bottom;
\* the line of any other local never carries it.
C7_InnerSuffix ==
  \A p \in 1..Len(LocalLines) :
    LET c == fs.locals[LocalLines[p].idx] IN
      /\ c.ty \subseteq TBoxedCell => (LocalLines[p].inner <=> c.inner # {})
      /\ ~(c.ty \subseteq TBoxedCell) => ~LocalLines[p].inner

\* a boxed local with an inner prediction
C7_Witness ==
  /\ pc = "done" /\ Len(LocalLines) >= 1
  /\ LocalLines[1].inner
  /\ fs.locals[0].ty = TBoxedCell /\ fs.locals[0].inner # {}

\* C8: after construction the cursor stack holds the source key of the
\* context and nothing else, the builder has been given DefFP without
\* inputs and then DefSP with the initial stack-pointer offset and the
\* result of DefFP as input, and the marker was updated before both.
C8_Construction ==
  /\ ~Constructed => (irb.insts = <<>> /\ trace = <<>>)
  /\ Constructed =>
       /\ Len(bcStateStack) = 1
       /\ bcStateStack[1] = context.srcKey
       /\ Len(irb.insts) = 2
       /\ irb.insts[1].op = "DefFP" /\ irb.insts[1].srcs = <<>>
       /\ irb.insts[2].op = "DefSP"
       /\ irb.insts[2].extra = context.initSpOffset
       /\ irb.insts[2].srcs = <<irb.insts[1].dst>>
       /\ trace = <<"updateMarker", "DefFP", "DefSP">>

C8_Witness ==
  /\ pc = "ready" /\ context.initSpOffset > 0
  /\ Len(bcStateStack) = 1 /\ Len(irb.insts) = 2

\* C9: show() comes to an end; an iteration of the stack loop that does not
\* halt lowers spOffset by 1 for a cell and by W for a region and never
\* below 0, and an iteration of the locals loop raises the index by 1 and
\* not above numLocals.
C9_Termination ==
  /\ <>(pc \in {"done", "aborted"})
  /\ [][ /\ (pc = "stack" /\ pc' = "stack") =>
              /\ spOffset' = spOffset - (IF chk'.hit THEN W ELSE 1)
              /\ spOffset' >= 0
              /\ Len(StackLines)' <= stackDepth
         /\ (pc = "locals" /\ pc' = "locals") =>
              (i' = i + 1 /\ i' <= func.numLocals)
       ]_vars

C9_Witness ==
  /\ pc = "done" /\ stackDepth >= W + 1 /\ func.numLocals >= 1
  /\ \E p \in 1..Len(StackLines) : StackLines[p].k = "actrec"
  /\ \E p \in 1..Len(StackLines) : StackLines[p].k = "elem"

\* C10: while show() has not halted, 0 <= spOffset <= stackDepth; at the head
\* of the stack loop i is the number of stack lines written, which is
\* stackDepth - spOffset; a region recognised with fewer than W cells left
\* halts show() with spOffset not below 0; a show() that left the stack
\* loop has written stackDepth stack lines.
C10_RemainingCount ==
  /\ (Walking /\ pc # "aborted") => (0 <= spOffset /\ spOffset <= stackDepth)
  /\ pc = "stack" =>
       (i = Len(StackLines) /\ Len(StackLines) = stackDepth - spOffset)
  /\ spOffset >= 0
  /\ (chk.valid /\ chk.hit /\ chk.sp < W) => pc = "aborted"
  /\ pc \in {"locals", "done"} => Len(StackLines) = stackDepth

\* a region recognised with one cell left
C10_Witness ==
  /\ pc = "aborted" /\ chk.valid /\ chk.hit /\ chk.sp = 1 /\ spOffset = 0

====
